---- MODULE Spec2Model ----
(***************************************************************************)
(* A model of the CSV -> SQL Server migration of                            *)
(* src/data_migration_into_db/migrate_data.py (with config.py).            *)
(*                                                                         *)
(* A DataFrame is [columns, rows]; a row is [idx, cells] where idx is the   *)
(* DataFrame index label (kept by dropna/iloc, not written by              *)
(* to_sql(index=False); it is carried into the table only to tell the rows *)
(* apart) and cells maps a column name to a cell.                          *)
(*                                                                         *)
(* A cell is a record [k, a, b, c]:                                        *)
(*   k = "nan"  : NaN / NaT / NULL                                         *)
(*   k = "str"  : text, a = leading whitespace characters, b = characters  *)
(*                of the stripped text, c = trailing whitespace characters *)
(*   k = "num"  : a number, a = base (0: near 0, 1: near 10^15 dollars),   *)
(*                b = offset from the base in half cents                   *)
(*   k = "date" : a date text / timestamp, a = YYYYMMDD, b = time of day   *)
(*                (0 = midnight, 1 = noon)                                 *)
(***************************************************************************)
EXTENDS Integers, Sequences, FiniteSets, TLC

VARIABLES
    MIGRATION_CONFIG,   \* [if_exists, chunksize] (config.py MIGRATION_CONFIG)
    datetime_unit,      \* resolution pandas parses date text to: "ns" | "us"
    csv_exists,         \* os.path.exists(CSV_FILE_PATH)
    csv,                \* the DataFrame read_csv yields for the file
    database_exists,    \* StartupDB exists on the server
    table,              \* dbo.Companies: NoTable or [columns, rows]
    pc,                 \* position of main()
    df,                 \* main()'s local df (NoDf before the load)
    i,                  \* migrate_data_to_sql: loop counter of enumerate
    writes,             \* log of the to_sql calls of this run
    steps,              \* log of the steps main() started in this run
    errors,             \* the functions whose logger.error ran in this run
    result,             \* what main() returned: "none" | "True" | "False"
    report,             \* migration_summary_report.txt (NoReport if absent)
    run,                \* number of the current run of main()
    first               \* outcome of the first run, kept for comparison

vars == <<MIGRATION_CONFIG, datetime_unit, csv_exists, csv, database_exists,
          table, pc, df, i, writes, steps, errors, result, report, run, first>>

(***************************************************************************)
(* Bounds of the model.                                                    *)
(***************************************************************************)
MaxRows == 3          \* rows of a driver-level input file
MaxDataRows == 1      \* a data-level input file holds up to MaxDataRows + 1 rows
MaxChunkSize == 2     \* largest configured chunksize
MaxRuns == 2          \* runs of main() in succession

(***************************************************************************)
(* config.py                                                               *)
(***************************************************************************)
COLUMN_MAPPING ==
    [name |-> "Name", homepage_url |-> "HomepageURL",
     category_list |-> "CategoryList", funding_total_usd |-> "FundingTotalUSD",
     status |-> "Status", country_code |-> "CountryCode",
     state_code |-> "StateCode", city |-> "City",
     funding_rounds |-> "FundingRounds", founded_at |-> "FoundedAt",
     first_funding_at |-> "FirstFundingAt", last_funding_at |-> "LastFundingAt"]

NaN == [k |-> "nan", a |-> 0, b |-> 0, c |-> 0]
Str(lead, core, trail) == [k |-> "str", a |-> lead, b |-> core, c |-> trail]
Num(base, off) == [k |-> "num", a |-> base, b |-> off, c |-> 0]
Date(ymd, tod) == [k |-> "date", a |-> ymd, b |-> tod, c |-> 0]

isna(x) == x.k = "nan"

\* Order of two numbers / two timestamps (base, then offset; day, then time).
Less(x, y) == x.a < y.a \/ (x.a = y.a /\ x.b < y.b)

\* The IEEE double nearest to a decimal: near 10^15 doubles are 0.125 apart
\* (25 half cents); the small whole amounts used here are exact.
Float64(x) ==
    IF x.a = 1 THEN Num(1, 25 * ((2 * x.b + 25) \div 50)) ELSE x

\* The literal 999999999999999.99 of VALIDATION_RULES, as written.
max_funding_literal == Num(1, -2)

VALIDATION_RULES ==
    [max_name_length |-> 255, max_url_length |-> 500,
     max_category_length |-> 500, max_status_length |-> 50,
     max_country_code_length |-> 10, max_state_code_length |-> 50,
     max_city_length |-> 100, min_funding_amount |-> Num(0, 0),
     max_funding_amount |-> Float64(max_funding_literal)]

(***************************************************************************)
(* pandas                                                                  *)
(***************************************************************************)
\* len() of a text cell.
StrLen(x) == x.a + x.b + x.c

\* Series.str[:n] on one text cell: the first n characters.
StrSlice(x, n) ==
    LET lead == IF x.a < n THEN x.a ELSE n
        core == IF x.b < n - lead THEN x.b ELSE n - lead
        trail == IF x.c < n - lead - core THEN x.c ELSE n - lead - core
    IN  Str(lead, core, trail)

\* Series.str.strip() on one cell.
StrStrip(x) == IF x.k = "str" THEN Str(0, x.b, 0) ELSE x

\* The dtype read_csv gives a column: numeric when every cell is a number or
\* missing (an empty file gives object columns), else object, the non-missing
\* cells being Python strings.
IsNumericDtype(frame, col) ==
    /\ Len(frame.rows) > 0
    /\ \A n \in 1..Len(frame.rows) : frame.rows[n].cells[col].k \in {"nan", "num"}

Frame(columns, rows) == [raised |-> FALSE, columns |-> columns, rows |-> rows]

\* An exception left the function.
Raised == [raised |-> TRUE, columns |-> {}, rows |-> <<>>]

\* pd.read_csv: the numbers of a numeric column are parsed to doubles; the
\* cells of an object column stay text.
read_csv(file) ==
    Frame(file.columns,
          [n \in 1..Len(file.rows) |->
              [file.rows[n] EXCEPT !.cells =
                  [col \in file.columns |->
                      IF @[col].k = "num" /\ IsNumericDtype(file, col)
                      THEN Float64(@[col]) ELSE @[col]]]])

(***************************************************************************)
(* migrate_data.py: validate_data                                          *)
(***************************************************************************)
\* df.dropna(subset=['name'])
DropMissingNames(rows) == SelectSeq(rows, LAMBDA r : ~isna(r.cells["name"]))

\* lines 47-51: names longer than max_name_length are cut to it.
TruncateName(x) ==
    IF x.k = "str" /\ StrLen(x) > VALIDATION_RULES.max_name_length
    THEN StrSlice(x, VALIDATION_RULES.max_name_length) ELSE x

\* lines 55-59: amounts below the minimum or above the maximum become NaN
\* (a comparison with NaN is False).
NullInvalidFunding(x) ==
    IF x.k = "num" /\ (Less(x, VALIDATION_RULES.min_funding_amount)
                       \/ Less(VALIDATION_RULES.max_funding_amount, x))
    THEN NaN ELSE x

\* df.loc[long_names, 'name'] = ... and df.loc[invalid_funding, ...] = np.nan
TruncateNames(rows) ==
    [n \in 1..Len(rows) |->
        [rows[n] EXCEPT !.cells = [@ EXCEPT !["name"] = TruncateName(@)]]]

NullInvalidFundings(rows) ==
    [n \in 1..Len(rows) |->
        [rows[n] EXCEPT !.cells =
            [@ EXCEPT !["funding_total_usd"] = NullInvalidFunding(@)]]]

\* `series < 0` on an object column compares the Python strings it holds with
\* an int: TypeError. Missing cells are float NaN and compare False.
FundingCompareRaises(frame, rows) ==
    /\ ~IsNumericDtype(frame, "funding_total_usd")
    /\ \E n \in 1..Len(rows) : ~isna(rows[n].cells["funding_total_usd"])

validate_data(frame) ==
    IF "name" \notin frame.columns
    THEN Raised                      \* dropna: KeyError
    ELSE IF IsNumericDtype(frame, "name")
    THEN Raised                      \* .str on a float column: AttributeError
    ELSE
      LET kept == DropMissingNames(frame.rows)
          named == TruncateNames(kept)
      IN  IF "funding_total_usd" \notin frame.columns
          THEN Frame(frame.columns, named)
          ELSE IF FundingCompareRaises(frame, named)
          THEN Raised
          ELSE Frame(frame.columns, NullInvalidFundings(named))

(***************************************************************************)
(* migrate_data.py: clean_and_transform_data                               *)
(***************************************************************************)
Rename(col) ==
    IF col \in DOMAIN COLUMN_MAPPING THEN COLUMN_MAPPING[col] ELSE col

\* df.rename(columns=COLUMN_MAPPING): unmapped columns keep their name.
RenameColumns(frame) ==
    LET columns == {Rename(col) : col \in frame.columns}
        Source(new) == CHOOSE col \in frame.columns : Rename(col) = new
    IN  Frame(columns,
              [n \in 1..Len(frame.rows) |->
                  [frame.rows[n] EXCEPT !.cells =
                      [new \in columns |-> @[Source(new)]]]])

date_columns == {"FoundedAt", "FirstFundingAt", "LastFundingAt"}
numeric_columns == {"FundingTotalUSD", "FundingRounds"}
string_columns ==
    {"Name", "HomepageURL", "CategoryList", "Status", "CountryCode",
     "StateCode", "City"}

sql_server_min_date == Date(17530101, 0)
sql_server_max_date == Date(99991231, 0)

\* pd.Timestamp.min and pd.Timestamp.max at nanosecond resolution:
\* 1677-09-21 00:12:43 and 2262-04-11 23:47:16.
TimestampMinNs == Date(16770921, 1)
TimestampMaxNs == Date(22620411, 1)

\* Whether a timestamp fits the resolution to_datetime parses to.
InBounds(x, unit) ==
    unit = "us" \/ (~Less(x, TimestampMinNs) /\ ~Less(TimestampMaxNs, x))

\* The format to_datetime guesses from the first non-missing element of the
\* column: "none" when there is none or it is not a date (every element is
\* then parsed on its own), else date-only (0) or date-and-time (1).
GuessedFormat(rows, col) ==
    LET present == {n \in 1..Len(rows) : ~isna(rows[n].cells[col])}
    IN  IF present = {} THEN "none"
        ELSE LET x == rows[CHOOSE n \in present : \A m \in present : n <= m].cells[col]
             IN  IF x.k = "date" THEN IF x.b = 0 THEN "date" ELSE "datetime"
                 ELSE "none"

\* pd.to_datetime(..., errors='coerce') on one cell: text that is no date,
\* does not match the guessed format or does not fit the resolution is NaT.
\* Date columns of the inputs hold text or nothing.
to_datetime(x, format, unit) ==
    IF /\ x.k = "date"
       /\ format \in {"none", IF x.b = 0 THEN "date" ELSE "datetime"}
       /\ InBounds(x, unit)
    THEN x ELSE NaN

\* lines 88-99: the clamp to SQL Server's range.
ClampDate(x) ==
    IF x.k = "date" /\ (Less(x, sql_server_min_date) \/ Less(sql_server_max_date, x))
    THEN NaN ELSE x

\* pd.to_numeric(..., errors='coerce') on one cell.
to_numeric(x) == IF x.k = "num" THEN Float64(x) ELSE NaN

\* astype(str) on one cell: NaN becomes the text 'nan'; a number or a date
\* becomes its text (3, 18, 10 or 19 characters for the values used here).
astype_str(x) ==
    CASE x.k = "nan" -> Str(0, 3, 0)
      [] x.k = "str" -> x
      [] x.k = "num" -> Str(0, IF x.a = 0 THEN 3 ELSE 18, 0)
      [] x.k = "date" -> Str(0, IF x.b = 0 THEN 10 ELSE 19, 0)

\* lines 118-120 on one cell: astype(str) makes the text 'nan' of a missing
\* cell and replace('nan', np.nan) turns it back into NaN (read_csv never
\* yields the text 'nan' itself); the rest is stripped.
CleanString(x) ==
    IF isna(x) THEN NaN ELSE StrStrip(astype_str(x))

CleanCell(col, x, format, unit) ==
    CASE col \in date_columns -> ClampDate(to_datetime(x, format, unit))
      [] col \in numeric_columns -> to_numeric(x)
      [] col \in string_columns -> CleanString(x)
      [] OTHER -> x

clean_and_transform_data(frame, unit) ==
    LET renamed == RenameColumns(frame)
    IN  Frame(renamed.columns,
              [n \in 1..Len(renamed.rows) |->
                  [renamed.rows[n] EXCEPT !.cells =
                      [col \in renamed.columns |->
                          CleanCell(col, @[col],
                                    GuessedFormat(renamed.rows, col), unit)]]])

(***************************************************************************)
(* The destination: pandas DataFrame.to_sql against dbo.Companies          *)
(***************************************************************************)
NoTable == [exists |-> FALSE, columns |-> {}, rows |-> <<>>]
Table(columns, rows) == [exists |-> TRUE, columns |-> columns, rows |-> rows]

\* The rows of a chunk as the table stores them: tagged with the run that
\* wrote them, a column the table has and the chunk lacks being NULL.
Stored(chunk, columns, r) ==
    [n \in 1..Len(chunk.rows) |->
        [run |-> r, idx |-> chunk.rows[n].idx,
         cells |-> [col \in columns |->
                      IF col \in chunk.columns
                      THEN chunk.rows[n].cells[col] ELSE NaN]]]

\* Whether to_sql raises whatever the server does: if_exists='fail' on an
\* existing table (ValueError), or an INSERT naming a column that an
\* existing table does not have.
to_sql_raises(tbl, chunk, if_exists) ==
    /\ tbl.exists
    /\ \/ if_exists = "fail"
       \/ if_exists = "append" /\ ~(chunk.columns \subseteq tbl.columns)

\* The table after a to_sql that succeeded.
to_sql(tbl, chunk, if_exists, r) ==
    IF tbl.exists /\ if_exists = "append"
    THEN Table(tbl.columns, tbl.rows \o Stored(chunk, tbl.columns, r))
    ELSE Table(chunk.columns, Stored(chunk, chunk.columns, r))

\* The tables a to_sql that failed on the server may leave: the one before
\* (the insert is one statement), or none when 'replace' had dropped it
\* and the drop was committed.
to_sql_failed(tbl, if_exists) ==
    {tbl} \cup (IF tbl.exists /\ if_exists = "replace" THEN {NoTable} ELSE {})

(***************************************************************************)
(* migrate_data.py: migrate_data_to_sql                                    *)
(***************************************************************************)
chunk_size == MIGRATION_CONFIG.chunksize

\* line 188
total_chunks(frame) == (Len(frame.rows) + chunk_size - 1) \div chunk_size

\* A loop that steps one row too far between two chunks.
chunk_start_skipping == i * (chunk_size + 1)

\* range(0, len(df), chunk_size)[i]
chunk_start == i * chunk_size

\* line 191
chunk_end(frame) ==
    IF chunk_start + chunk_size < Len(frame.rows)
    THEN chunk_start + chunk_size ELSE Len(frame.rows)

\* line 192: df.iloc[chunk_start:chunk_end]
chunk_df(frame) ==
    Frame(frame.columns, SubSeq(frame.rows, chunk_start + 1, chunk_end(frame)))

\* The configured mode passed to every to_sql call.
write_mode_configured == MIGRATION_CONFIG.if_exists

\* 'append' passed to every to_sql call, the first included.
write_mode_append == "append"

\* line 198
write_mode == IF i > 0 THEN "append" ELSE MIGRATION_CONFIG.if_exists

(***************************************************************************)
(* migrate_data.py: generate_summary_report                                *)
(***************************************************************************)
report_columns == {"Name", "FundingTotalUSD", "CountryCode", "CategoryList"}

\* isnull().sum() of a column.
CountMissing(rows, col) ==
    Cardinality({n \in 1..Len(rows) : isna(rows[n].cells[col])})

Values(rows, col) ==
    {rows[n].cells[col] : n \in {m \in 1..Len(rows) : ~isna(rows[m].cells[col])}}

RECURSIVE SumOf(_, _, _)
SumOf(rows, col, n) ==
    IF n = 0 THEN [a |-> 0, b |-> 0]
    ELSE LET x == rows[n].cells[col]
             rest == SumOf(rows, col, n - 1)
         IN  IF x.k = "num" THEN [a |-> rest.a + x.a, b |-> rest.b + x.b]
             ELSE rest

\* max() and min() of a column, NaN when it holds no value.
MaxOf(rows, col) ==
    LET vs == Values(rows, col)
    IN  IF vs = {} THEN NaN
        ELSE CHOOSE x \in vs : \A y \in vs : ~Less(x, y)

MinOf(rows, col) ==
    LET vs == Values(rows, col)
    IN  IF vs = {} THEN NaN
        ELSE CHOOSE x \in vs : \A y \in vs : ~Less(y, x)

\* The statistics of the report (lines 260-281); the mean is kept as the sum
\* over the count of the values. The median is not modelled.
Statistics(frame) ==
    [records |-> Len(frame.rows),
     columns |-> Cardinality(frame.columns),
     method |-> MIGRATION_CONFIG.if_exists,
     chunk |-> MIGRATION_CONFIG.chunksize,
     missing_names |-> CountMissing(frame.rows, "Name"),
     with_funding |-> Len(frame.rows) - CountMissing(frame.rows, "FundingTotalUSD"),
     countries |-> Cardinality(Values(frame.rows, "CountryCode")),
     categories |-> Cardinality(Values(frame.rows, "CategoryList")),
     funding_sum |-> SumOf(frame.rows, "FundingTotalUSD", Len(frame.rows)),
     funding_max |-> MaxOf(frame.rows, "FundingTotalUSD"),
     funding_min |-> MinOf(frame.rows, "FundingTotalUSD")]

NoReport == [written |-> FALSE]
Report(frame) == [written |-> TRUE, statistics |-> Statistics(frame)]

(***************************************************************************)
(* Input files                                                             *)
(***************************************************************************)
AllColumns == DOMAIN COLUMN_MAPPING

\* A well-formed row: every field present and within its limits.
BaseCells ==
    [name |-> Str(0, 3, 0), homepage_url |-> Str(0, 20, 0),
     category_list |-> Str(0, 8, 0), funding_total_usd |-> Num(0, 1000),
     status |-> Str(0, 9, 0), country_code |-> Str(0, 3, 0),
     state_code |-> Str(0, 2, 0), city |-> Str(0, 6, 0),
     funding_rounds |-> Num(0, 2), founded_at |-> Date(20100505, 0),
     first_funding_at |-> Date(20110101, 0),
     last_funding_at |-> Date(20120101, 0)]

With(col, x) == [BaseCells EXCEPT ![col] = x]

\* The rows of the driver-level files: a good row, a row without a name, a
\* row with a negative amount.
DriverCells ==
    {BaseCells, With("name", NaN), With("funding_total_usd", Num(0, -1000))}

\* The rows of the data-level files: the base row with one field changed.
DataCells ==
    {BaseCells}
    \cup {With("name", x) : x \in {NaN, Str(3, 0, 0), Str(1, 3, 2), Str(0, 300, 0),
                                   Str(1, 300, 0), Str(1, 255, 0),
                                   Str(255, 1, 0)}}
    \cup {With("homepage_url", x) : x \in {NaN, Str(0, 501, 0)}}
    \cup {With("category_list", Str(0, 501, 0)), With("status", Str(0, 51, 0)),
          With("country_code", Str(0, 11, 0)), With("state_code", Str(0, 51, 0)),
          With("city", Str(0, 101, 0))}
    \cup {With("funding_total_usd", x) :
            x \in {NaN, Str(0, 1, 0), Num(0, -1000), Num(0, 0), Num(1, -2),
                   Num(1, 0), Num(1, 200)}}
    \cup {With("founded_at", x) :
            x \in {NaN, Str(0, 7, 0), Date(16000101, 0), Date(17000101, 0),
                   Date(17521231, 0), Date(17530101, 0), Date(23000101, 0),
                   Date(99991231, 0)}}
    \cup {With("first_funding_at", x) :
            x \in {Date(17000101, 0), Date(20110101, 1), Date(99991231, 1)}}
    \cup {With("last_funding_at", Date(99991231, 0))}

\* The sequences of at most n rows over a set of cells, indexed from 0.
RowsOver(cells, n) ==
    UNION {[1..len -> cells] : len \in 0..n}

FileOf(columns, cellseq) ==
    [columns |-> columns,
     rows |-> [n \in 1..Len(cellseq) |->
                 [idx |-> n - 1,
                  cells |-> [col \in columns |->
                               IF col \in AllColumns THEN cellseq[n][col]
                               ELSE Str(0, 5, 0)]]]]

DriverFiles == {FileOf(AllColumns, cs) : cs \in RowsOver(DriverCells, MaxRows)}

\* Data-level files: all mapped columns, one of them missing, or an unmapped
\* column besides them.
DataColumnSets ==
    {AllColumns, AllColumns \cup {"extra"}, AllColumns \ {"name"},
     AllColumns \ {"funding_total_usd"}, AllColumns \ {"country_code"},
     AllColumns \ {"founded_at"}}

DataFiles ==
    {FileOf(AllColumns, cs) : cs \in RowsOver(DataCells, MaxDataRows + 1)}
    \cup {FileOf(columns, cs) : columns \in DataColumnSets,
                                cs \in RowsOver({BaseCells}, MaxDataRows + 1)}

\* A row left in the table by an earlier load.
StaleRow == [run |-> 0, idx |-> 0, cells |-> [col \in {Rename(c) : c \in AllColumns} |-> NaN]]

PriorTables ==
    {NoTable, Table({Rename(c) : c \in AllColumns}, <<>>),
     Table({Rename(c) : c \in AllColumns}, <<StaleRow>>)}

NoDf == Frame({}, <<>>)
NoFirst == [result |-> "none", table |-> NoTable, report |-> NoReport]

Fresh ==
    /\ pc = "start"
    /\ df = NoDf
    /\ i = 0
    /\ writes = <<>>
    /\ steps = <<>>
    /\ errors = <<>>
    /\ result = "none"
    /\ report = NoReport
    /\ run = 1
    /\ first = NoFirst

Init ==
    /\ MIGRATION_CONFIG \in [if_exists : {"replace", "append", "fail"},
                             chunksize : 1..MaxChunkSize]
    /\ datetime_unit = "ns"
    /\ csv_exists \in BOOLEAN
    /\ csv \in DriverFiles
    /\ database_exists \in BOOLEAN
    /\ table \in PriorTables
    /\ Fresh

\* The configuration as config.py ships it, but for the chunk size.
DataInit ==
    /\ MIGRATION_CONFIG = [if_exists |-> "replace", chunksize |-> MaxChunkSize]
    /\ datetime_unit \in {"ns", "us"}
    /\ csv_exists = TRUE
    /\ csv \in DataFiles
    /\ database_exists = TRUE
    /\ table = NoTable
    /\ Fresh

(***************************************************************************)
(* migrate_data.py: main                                                   *)
(***************************************************************************)
Config == <<MIGRATION_CONFIG, datetime_unit, csv_exists, csv>>

Return(value) ==
    /\ pc' = "returned"
    /\ result' = value
    /\ errors' = errors

Goto(step) ==
    /\ pc' = step
    /\ result' = result
    /\ errors' = errors

\* A failure that is swallowed: nothing is logged and main returns True.
FailSilently(function) ==
    /\ pc' = "returned"
    /\ result' = "True"
    /\ errors' = errors

\* logger.error(...) in the function named, then main returns False
\* (lines 146, 176, 209, 241, 304, 343).
Fail(function) ==
    /\ pc' = "returned"
    /\ result' = "False"
    /\ errors' = Append(errors, function)

\* lines 302-305
CheckCsv ==
    /\ pc = "start"
    /\ IF csv_exists THEN Goto("test_connection") ELSE Fail("main")
    /\ UNCHANGED <<Config, database_exists, table, df, i, writes, steps,
                   report, run, first>>

\* lines 308-310 with test_connection: both connections name StartupDB and
\* fail when it does not exist; the server may be unreachable as well.
TestConnection ==
    /\ pc = "test_connection"
    /\ steps' = Append(steps, "test_connection")
    /\ \E ok \in {b \in BOOLEAN : b => database_exists} :
          IF ok THEN Goto("create_database") ELSE Fail("test_connection")
    /\ UNCHANGED <<Config, database_exists, table, df, i, writes, report,
                   run, first>>

\* lines 312-314 with create_database_if_not_exists
CreateDatabase ==
    /\ pc = "create_database"
    /\ steps' = Append(steps, "create_database")
    /\ \E ok \in BOOLEAN :
          IF ok
          THEN Goto("load") /\ database_exists' = TRUE
          ELSE Fail("create_database_if_not_exists") /\ UNCHANGED database_exists
    /\ UNCHANGED <<Config, table, df, i, writes, report, run, first>>

\* lines 316-319: read_csv may raise (the file cannot be read or parsed),
\* which the except of line 342 turns into False.
LoadCsv ==
    /\ pc = "load"
    /\ steps' = Append(steps, "load")
    /\ \E ok \in BOOLEAN :
          IF ok
          THEN Goto("validate") /\ df' = read_csv(csv)
          ELSE Fail("main") /\ UNCHANGED df
    /\ UNCHANGED <<Config, database_exists, table, i, writes, report, run, first>>

\* line 322
ValidateData ==
    /\ pc = "validate"
    /\ steps' = Append(steps, "validate")
    /\ LET out == validate_data(df)
       IN  IF out.raised
           THEN Fail("main") /\ UNCHANGED df
           ELSE Goto("clean") /\ df' = out
    /\ UNCHANGED <<Config, database_exists, table, i, writes, report, run, first>>

\* line 323
CleanData ==
    /\ pc = "clean"
    /\ steps' = Append(steps, "clean")
    /\ df' = clean_and_transform_data(df, datetime_unit)
    /\ Goto("migrate")
    /\ UNCHANGED <<Config, database_exists, table, i, writes, report, run, first>>

\* lines 325-327, entering migrate_data_to_sql: create_engine may raise.
MigrateStart ==
    /\ pc = "migrate"
    /\ steps' = Append(steps, "migrate")
    /\ i' = 0
    /\ \E ok \in BOOLEAN :
          IF ok THEN Goto("chunk") ELSE Fail("migrate_data_to_sql")
    /\ UNCHANGED <<Config, database_exists, table, df, writes, report, run, first>>

\* An except that logs the error and goes on with the next chunk.
OnWriteErrorContinue ==
    /\ i' = i + 1
    /\ Goto("chunk")

\* lines 208-210: the except of migrate_data_to_sql returns False, and so
\* does main (lines 326-327).
OnWriteError ==
    /\ i' = i
    /\ Fail("migrate_data_to_sql")

\* lines 190-203: one iteration of the loop. Each call of to_sql is logged
\* with the table before and after it.
MigrateChunk ==
    /\ pc = "chunk"
    /\ chunk_start < Len(df.rows)
    /\ \E ok \in {b \in BOOLEAN : b => ~to_sql_raises(table, chunk_df(df), write_mode)} :
          /\ IF ok
             THEN /\ table' = to_sql(table, chunk_df(df), write_mode, run)
                  /\ i' = i + 1
                  /\ Goto("chunk")
             ELSE /\ table' \in to_sql_failed(table, write_mode)
                  /\ OnWriteError
          /\ writes' = Append(writes,
                 [i |-> i, if_exists |-> write_mode, ok |-> ok,
                  chunk_start |-> chunk_start, chunk_end |-> chunk_end(df),
                  rows |-> chunk_df(df).rows, before |-> table,
                  after |-> table'])
    /\ UNCHANGED <<Config, database_exists, df, steps, report, run, first>>

\* A loop that may be left before its last chunk.
MigrateReturnEarly ==
    /\ pc = "chunk"
    /\ Goto("verify")
    /\ UNCHANGED <<Config, database_exists, table, df, i, writes, steps,
                   report, run, first>>

\* lines 205-206: the loop is over, migrate_data_to_sql returns True.
MigrateReturn ==
    /\ pc = "chunk"
    /\ chunk_start >= Len(df.rows)
    /\ Goto("verify")
    /\ UNCHANGED <<Config, database_exists, table, df, i, writes, steps,
                   report, run, first>>

\* lines 329-331 with verify_migration: the queries raise when the table
\* does not exist, and may raise for the server's reasons.
VerifyMigration ==
    /\ pc = "verify"
    /\ steps' = Append(steps, "verify")
    /\ \E ok \in {b \in BOOLEAN : b => table.exists} :
          IF ok THEN Goto("report") ELSE Fail("verify_migration")
    /\ UNCHANGED <<Config, database_exists, table, df, i, writes, report,
                   run, first>>

\* lines 333-340 with generate_summary_report: a column of the report that
\* df lacks raises KeyError, and writing the file may raise; either leaves
\* main through the except of line 342.
GenerateSummaryReport ==
    /\ pc = "report"
    /\ steps' = Append(steps, "report")
    /\ \E ok \in {b \in BOOLEAN : b => report_columns \subseteq df.columns} :
          IF ok
          THEN Return("True") /\ report' = Report(df)
          ELSE Fail("main") /\ UNCHANGED report
    /\ UNCHANGED <<Config, database_exists, table, df, i, writes, run, first>>

\* The operator runs main() again on the same file and configuration.
Rerun ==
    /\ pc = "returned"
    /\ run < MaxRuns
    /\ run' = run + 1
    /\ first' = IF run = 1
                THEN [result |-> result, table |-> table, report |-> report]
                ELSE first
    /\ pc' = "start"
    /\ df' = NoDf
    /\ i' = 0
    /\ writes' = <<>>
    /\ steps' = <<>>
    /\ errors' = <<>>
    /\ result' = "none"
    /\ UNCHANGED <<Config, database_exists, table, report>>

Run ==
    \/ CheckCsv
    \/ TestConnection
    \/ CreateDatabase
    \/ LoadCsv
    \/ ValidateData
    \/ CleanData
    \/ MigrateStart
    \/ MigrateChunk
    \/ MigrateReturn
    \/ VerifyMigration
    \/ GenerateSummaryReport

Next == Run \/ Rerun

Spec == Init /\ [][Next]_vars

\* Files of every length up to MaxRows, with and without rows to drop.
LiveFiles ==
    {FileOf(AllColumns, cs) :
        cs \in RowsOver({BaseCells, With("name", NaN)}, MaxRows)}

LiveInit ==
    /\ MIGRATION_CONFIG \in [if_exists : {"replace", "append", "fail"},
                             chunksize : 1..MaxChunkSize]
    /\ datetime_unit = "ns"
    /\ csv_exists \in BOOLEAN
    /\ csv \in LiveFiles
    /\ database_exists \in BOOLEAN
    /\ table \in PriorTables
    /\ Fresh

\* One call of main(): the interpreter keeps executing it until it returns.
FairSpec == LiveInit /\ [][Run]_vars /\ WF_vars(Run)

\* lines 346-348: sys.exit(0 if success else 1)
exit_code == IF result = "True" THEN 0 ELSE 1

\* One run of main() over the data-level files.
DataSpec == DataInit /\ [][Run]_vars

(***************************************************************************)
(* The claims                                                              *)
(***************************************************************************)
\* The rows this run has written to the destination.
Written == SelectSeq(table.rows, LAMBDA r : r.run = run)

\* The cell of the input file a written cell comes from.
SourceCell(r, col) ==
    csv.rows[r.idx + 1].cells[CHOOSE c \in csv.columns : Rename(c) = col]

\* C1: every record written to the destination has a Name that is neither
\* null nor the empty string (a record whose source name is blank or only
\* whitespace is dropped).
C1_WrittenNamePresent ==
    \A n \in 1..Len(Written) :
        LET x == Written[n].cells["Name"]
        IN  x.k = "str" /\ StrLen(x) > 0

\* The configured maximum length of a string field of the destination.
MaxLength ==
    [Name |-> VALIDATION_RULES.max_name_length,
     HomepageURL |-> VALIDATION_RULES.max_url_length,
     CategoryList |-> VALIDATION_RULES.max_category_length,
     Status |-> VALIDATION_RULES.max_status_length,
     CountryCode |-> VALIDATION_RULES.max_country_code_length,
     StateCode |-> VALIDATION_RULES.max_state_code_length,
     City |-> VALIDATION_RULES.max_city_length]

\* C2: in every record written to the destination, each of the seven string
\* fields is null or no longer than its configured maximum.
C2_WrittenStringsWithinLimits ==
    \A n \in 1..Len(Written) :
        \A col \in DOMAIN MaxLength \cap table.columns :
            LET x == Written[n].cells[col]
            IN  isna(x) \/ (x.k = "str" /\ StrLen(x) <= MaxLength[col])

\* C3: in every record written to the destination, FundingTotalUSD is null
\* or lies within [0, 999999999999999.99].
C3_WrittenFundingInRange ==
    \A n \in 1..Len(Written) :
        "FundingTotalUSD" \in table.columns =>
            LET x == Written[n].cells["FundingTotalUSD"]
            IN  \/ isna(x)
                \/ /\ x.k = "num"
                   /\ ~Less(x, Num(0, 0))
                   /\ ~Less(max_funding_literal, x)

InSqlServerRange(x) ==
    ~Less(x, Date(17530101, 0)) /\ ~Less(Date(99991231, 0), x)

\* C4: in every record written to the destination, each date field is null
\* or within [1753-01-01, 9999-12-31]; a date of the input strictly outside
\* that range is null in the destination, and the two boundary dates are
\* retained.
C4_WrittenDatesClamped ==
    \A n \in 1..Len(Written) :
        \A col \in date_columns \cap table.columns :
            LET x == Written[n].cells[col]
                src == SourceCell(Written[n], col)
            IN  /\ isna(x) \/ (x.k = "date" /\ InSqlServerRange(x))
                /\ (src.k = "date" /\ ~InSqlServerRange(src)) => isna(x)
                /\ src \in {Date(17530101, 0), Date(99991231, 0)} => x = src

\* The steps main() has started in this run.
Started(step) == \E n \in 1..Len(steps) : steps[n] = step

\* migrate_data_to_sql has returned True in this run.
MigrateSucceeded == Started("verify") \/ pc = "verify"

\* The least q with q * b >= n.
Ceil(n, b) == CHOOSE q \in 0..n : q * b >= n /\ (q = 0 \/ (q - 1) * b < n)

RECURSIVE Concat(_, _)
Concat(log, n) == IF n = 0 THEN <<>> ELSE Concat(log, n - 1) \o log[n].rows

IsPrefix(s, t) == Len(s) <= Len(t) /\ SubSeq(t, 1, Len(s)) = s

\* C6: only the first batch write of a run uses the configured write mode;
\* every later one uses append, finds the table the earlier write left and
\* keeps every row of it.
C6_LaterBatchesAppend ==
    \A k \in 1..Len(writes) :
        IF k = 1
        THEN writes[k].if_exists = MIGRATION_CONFIG.if_exists
        ELSE /\ writes[k].if_exists = "append"
             /\ writes[k].before = writes[k - 1].after
             /\ writes[k].after.exists
             /\ writes[k].after.columns = writes[k].before.columns
             /\ IsPrefix(writes[k].before.rows, writes[k].after.rows)

C6_Witness ==
    /\ MIGRATION_CONFIG.if_exists = "replace"
    /\ Len(writes) >= 2
    /\ writes[2].ok
    /\ Len(writes[2].after.rows) > Len(writes[2].before.rows)

\* C7: if the write of batch k fails, no later batch is attempted, the run
\* returns False without verification or report, and the destination holds
\* what batch k-1 left.
C7_FailedBatchAborts ==
    \A k \in 1..Len(writes) :
        ~writes[k].ok =>
            /\ k = Len(writes)
            /\ pc = "returned"
            /\ result = "False"
            /\ ~Started("verify")
            /\ ~Started("report")
            /\ k > 1 => table = writes[k - 1].after

C7_Witness ==
    /\ Len(writes) >= 2
    /\ ~writes[Len(writes)].ok
    /\ Len(Written) > 0

\* C8: after a run in write mode replace whose write succeeded, the table
\* holds exactly the records of that run, whatever it held before.
C8_ReplaceLeavesExactlyTheRun ==
    (MIGRATION_CONFIG.if_exists = "replace" /\ MigrateSucceeded) =>
        table.rows = Stored(df, df.columns, run)

\* C9: in write mode replace, a second successful run on the same input
\* leaves the row count of the first and reports the same statistics.
C9_ReplaceIsIdempotent ==
    (/\ MIGRATION_CONFIG.if_exists = "replace"
     /\ run > 1
     /\ first.result = "True"
     /\ pc = "returned"
     /\ result = "True") =>
        /\ Len(table.rows) = Len(first.table.rows)
        /\ report.statistics = first.report.statistics

C9_Witness ==
    /\ MIGRATION_CONFIG.if_exists = "replace"
    /\ run > 1
    /\ first.result = "True"
    /\ pc = "returned"
    /\ result = "True"
    /\ Len(writes) >= 2

\* C10: if every batch was written and the verification then fails, main
\* still returns True.
C10_VerificationFailureIsSuccess ==
    (/\ pc = "returned"
     /\ Len(writes) > 0
     /\ \A k \in 1..Len(writes) : writes[k].ok
     /\ steps[Len(steps)] = "verify") => result = "True"

\* Every write of this run succeeded, and there was at least one.
AllBatchesWritten ==
    /\ MigrateSucceeded
    /\ Len(writes) > 0
    /\ \A n \in 1..Len(writes) : writes[n].ok

\* C11: whenever all batches of a run were written, the summary report is
\* generated, whether the verification succeeded or failed: a run that
\* returned after writing every batch has started the report step.
C11_ReportAfterEveryCompleteWrite ==
    (pc = "returned" /\ AllBatchesWritten) => Started("report")

\* The step main() started last.
LastStep == steps[Len(steps)]

\* C12: a failure of generate_summary_report does not fail the run: a run
\* whose earlier steps all succeeded, and which therefore ends in the
\* report step, returns True.
C12_ReportFailureIsNotFatal ==
    (pc = "returned" /\ steps # <<>> /\ LastStep = "report") => result = "True"

\* C13: the driver starts its steps in the order connection check, schema
\* ensure, load, clean, validate, write, verify, report; cleaning comes
\* before validation.
C13_CleanBeforeValidate ==
    IsPrefix(steps, <<"test_connection", "create_database", "load", "clean",
                      "validate", "migrate", "verify", "report">>)

\* The steps of main() in the order of its source.
pipeline ==
    <<"test_connection", "create_database", "load", "validate", "clean",
      "migrate", "verify", "report">>

\* The function whose logger.error reports the failure of a fatal step.
error_site ==
    [test_connection |-> "test_connection",
     create_database |-> "create_database_if_not_exists",
     load |-> "main",
     migrate |-> "migrate_data_to_sql"]

Failed == pc = "returned" /\ result = "False"

\* C14: once a fatal step (connection check, schema ensure, load, batch
\* write) fails, no later step is started, main returns False and the log
\* holds one error, written by the function of the failed step after the
\* line that announced that step; a batch write that failed is the last
\* write. A run returns True only after all eight steps. Nothing follows a
\* failed run but a new run of main, which finds the destination as the
\* failed run left it.
C14_FatalFailureHalts ==
    /\ [](/\ IsPrefix(steps, pipeline)
          /\ errors # <<>> => Failed /\ Len(errors) = 1
          /\ Failed => Len(errors) = 1
          /\ (pc = "returned" /\ result = "True") => steps = pipeline
          /\ (Failed /\ steps # <<>> /\ LastStep \in DOMAIN error_site) =>
                /\ errors = <<error_site[LastStep]>>
                /\ \A n \in 1..Len(writes) : writes[n].ok <=> n < Len(writes))
    /\ [][Failed => /\ run' = run + 1
                    /\ pc' = "start"
                    /\ UNCHANGED <<database_exists, table, report>>]_vars

C14_Witness ==
    /\ Failed
    /\ steps = <<"test_connection", "create_database", "load">>
    /\ errors = <<"main">>

\* C15: if the input file cannot be located or cannot be read, the run
\* fails without any operation on the destination: no connection is
\* opened, no database is created and no table is written.
C15_SourceFailureLeavesDestinationUntouched ==
    (Failed /\ (~csv_exists \/ (steps # <<>> /\ LastStep = "load"))) =>
        /\ ~Started("test_connection")
        /\ ~Started("create_database")
        /\ writes = <<>>

\* A cell that cannot be parsed as a number, or a number out of range.
BadFunding(x) ==
    \/ x.k = "str"
    \/ x.k = "num" /\ (Less(x, Num(0, 0)) \/ Less(max_funding_literal, x))

\* A cell that cannot be parsed as a date, or a date out of range.
BadDate(x) ==
    \/ x.k = "str"
    \/ x.k = "date" /\ ~InSqlServerRange(x)

\* Some FundingTotalUSD or date value of the input is unparsable or out of
\* range.
HasBadField ==
    \E n \in 1..Len(csv.rows) :
        \/ /\ "funding_total_usd" \in csv.columns
           /\ BadFunding(csv.rows[n].cells["funding_total_usd"])
        \/ \E col \in {"founded_at", "first_funding_at", "last_funding_at"}
                      \cap csv.columns :
              BadDate(csv.rows[n].cells[col])

\* C16: a FundingTotalUSD or date value that is unparsable or out of range
\* never aborts the run: once such an input has been loaded and validation
\* has started, the run reaches the write step.
C16_BadFieldNeverAborts ==
    (pc = "returned" /\ Started("validate") /\ HasBadField) =>
        Started("migrate")

\* C17: an input that lacks a mapped source column does not fail the run:
\* validation completes on it, and the report can be computed from it.
C17_MissingColumnIsNotAnError ==
    AllColumns \ csv.columns # {} =>
        /\ (pc = "returned" /\ Started("validate")) => Started("clean")
        /\ pc = "report" => report_columns \subseteq df.columns

\* C18: the written table carries only the twelve destination fields of
\* the column mapping; an unmapped source column never appears in it.
C18_OnlyMappedColumnsWritten ==
    \A n \in 1..Len(writes) :
        writes[n].ok =>
            writes[n].after.columns \subseteq {Rename(c) : c \in AllColumns}

\* C19: every non-null date value written is a calendar date without a
\* time of day.
C19_WrittenDatesHaveNoTimeOfDay ==
    \A n \in 1..Len(Written) :
        \A col \in date_columns \cap table.columns :
            LET x == Written[n].cells[col]
            IN  x.k = "date" => x.b = 0

\* C20: the counters of per-row issues appear in the report of the run: the
\* count of records with a missing name that the report states is the
\* number of rows the validation dropped for a missing name.
C20_ReportCountsDroppedRows ==
    (pc = "returned" /\ result = "True") =>
        report.statistics.missing_names = Len(csv.rows) - Len(df.rows)

\* The Name of an input record is present: not null and not empty once
\* trimmed.
NamePresent(x) == ~isna(x) /\ StrLen(StrStrip(x)) > 0

\* The positions in the input file of the rows of a sequence.
Indices(rows) == [n \in 1..Len(rows) |-> rows[n].idx]

\* C21: the records handed to the writer are exactly the input records
\* whose Name is present, in their input order; truncation and nulling
\* remove and reorder nothing.
C21_WriterGetsRecordsWithName ==
    Started("clean") =>
        Indices(df.rows) =
            Indices(SelectSeq(csv.rows, LAMBDA r : NamePresent(r.cells["name"])))

\* C22: for every input record whose trimmed Name is longer than 255
\* characters, the Name written is the leading 255 characters of the
\* trimmed Name, leading or trailing whitespace in the source or not.
C22_LongNameTruncatedAfterTrim ==
    \A n \in 1..Len(Written) :
        LET src == SourceCell(Written[n], "Name")
        IN  (src.k = "str"
             /\ StrLen(StrStrip(src)) > VALIDATION_RULES.max_name_length) =>
                /\ Written[n].cells["Name"] =
                      StrSlice(StrStrip(src), VALIDATION_RULES.max_name_length)
                /\ StrLen(Written[n].cells["Name"]) =
                      VALIDATION_RULES.max_name_length

====
